---- MODULE Spec2Model ----
(***************************************************************************)
(* Cash-book synchronisation core: one laptop (writer) and one mobile      *)
(* (viewer) share a JSON blob on a remote relay.  Modelled from            *)
(*   src/unnamed/part_002  (App: state, syncLoop, fetchRates, masterUpdate,*)
(*                          totals, the entry handlers, doDayEnd)          *)
(*   src/unnamed/part_001  lines 87-174 (saveState, getState,              *)
(*                          saveToHistory, getHistory)                     *)
(***************************************************************************)
EXTENDS Integers, Sequences, FiniteSets, Bags, TLC

VARIABLES
  state,         \* [Dev -> object]   React state `state` of each device
  stateJsonRef,  \* [Dev -> JSON]     stateJsonRef.current
  cache,         \* [Dev -> JSON]     localStorage[STORAGE_KEY]  (NoItem when unset)
  historyStore,  \* [Dev -> JSON]     localStorage[HISTORY_KEY]  (NoItem when unset)
  remote,        \* JSON held by the blob at CLOUD_URL
  puts,          \* [Dev -> set of JSON] bodies of the PUT requests in flight
  gets,          \* [Dev -> bag]      GET requests in flight (getState calls)
  ratesReq,      \* [Dev -> BOOLEAN]  the fetchRates request is in flight
  savePromise,   \* [Dev -> the promise of the latest saveState call:
                 \*   "none", "pending", "true", "false" or "rejected"]
  accepted,      \* the greatest lastSyncTimestamp the relay has accepted
  clock,         \* Date.now()
  today,         \* the calendar day of new Date(), as a day count
  nextId,        \* the next value of crypto.randomUUID()
  thrown         \* [Dev -> BOOLEAN]  an exception has left a handler uncaught

vars == <<state, stateJsonRef, cache, historyStore, remote, puts, gets,
          ratesReq, savePromise, accepted, clock, today, nextId, thrown>>

(***************************************************************************)
(* Bounds of the model.                                                    *)
(***************************************************************************)
MaxWrites   == 2   \* masterUpdate calls the laptop makes
MaxInFlight == 1   \* getState calls in flight on the writer
MaxOverlap  == 2   \* getState calls in flight on a viewer
MaxArchive  == 1   \* day-ends per device
MaxDays     == 2   \* the last day count midnight leads to
MaxAppends  == 102 \* saveToHistory calls made on the service alone

Dev == {"laptop", "mobile"}

\* src/types.ts DeviceType; part_002 line 108: isLaptop = device === LAPTOP
isLaptop(d) == d = "laptop"

(***************************************************************************)
(* JSON.  An object is a record; a missing key is a missing field.  A text *)
(* is the sequence of <<key, value>> pairs JSON.stringify writes: the keys *)
(* the object has, in insertion order, which for every object this program *)
(* builds is KeyOrder.  A value that may be null is a sequence of length 0 *)
(* (null) or 1.                                                            *)
(***************************************************************************)
KeyOrder == <<"currentDate", "outPartyEntries", "mainEntries", "exchangeRates",
              "openingBalance", "lastSyncTimestamp">>

Keys == {KeyOrder[i] : i \in DOMAIN KeyOrder}

Has(obj, k) == k \in DOMAIN obj

RECURSIVE StringifyFrom(_, _)
StringifyFrom(obj, i) ==
  IF i > Len(KeyOrder) THEN <<>>
  ELSE (IF Has(obj, KeyOrder[i]) THEN <<<<KeyOrder[i], obj[KeyOrder[i]]>>>> ELSE <<>>)
       \o StringifyFrom(obj, i + 1)

\* JSON.stringify(obj)
Stringify(obj) == StringifyFrom(obj, 1)

\* A text JSON.parse accepts; any other text makes it throw.
WellFormed(txt) == \A i \in DOMAIN txt : txt[i][1] \in Keys

\* JSON.parse(txt) of a well-formed text: the object with the keys written.
JsonParse(txt) ==
  [k \in {txt[i][1] : i \in DOMAIN txt} |->
      txt[CHOOSE i \in DOMAIN txt : txt[i][1] = k][2]]

NoItem    == <<>>                    \* localStorage.getItem(...) === null
Item(txt) == <<txt>>
Null      == <<>>                    \* null
Some(obj) == <<obj>>
EmptyBlob == <<>>                    \* the text "{}": the blob as provisioned
Corrupt   == <<<<"{\"currentDate", 0>>>>   \* a truncated, unparsable text

(***************************************************************************)
(* The snapshot (src/types.ts CashBookState) and the values put into it.   *)
(***************************************************************************)
CASH   == "CASH"
CARD   == "CARD"
PAYPAL == "PAY PAL"

\* The days of month m of 2024.
DaysIn(m) == IF m = 2 THEN 29 ELSE IF m \in {4, 6, 9, 11} THEN 30 ELSE 31

RECURSIVE DateFrom(_, _)
\* The n-th day counted from the first of month m of 2024.
DateFrom(n, m) ==
  IF n <= DaysIn(m) THEN <<n, m, 2024>> ELSE DateFrom(n - DaysIn(m), m + 1)

\* new Date(...).toLocaleDateString('en-GB') of day count n: <<dd, mm, yyyy>>,
\* day 0 being 31/12/2023 and day 1 01/01/2024.
ToLocaleDateString(n) == IF n = 0 THEN <<31, 12, 2023>> ELSE DateFrom(n, 1)

\* part_002 lines 38-44: the initial value of `state`
DefaultState ==
  [currentDate     |-> ToLocaleDateString(0),
   outPartyEntries |-> <<>>,
   mainEntries     |-> <<>>,
   exchangeRates   |-> [usd |-> 310, eur |-> 366],
   openingBalance  |-> 0]

\* { ...obj, [k]: v }
Assign(obj, k, v) ==
  [kk \in DOMAIN obj \cup {k} |-> IF kk = k THEN v ELSE obj[kk]]

\* obj[k] || dflt
FieldOr(obj, k, dflt) == IF Has(obj, k) THEN obj[k] ELSE dflt

RECURSIVE Sum(_)
\* reduce((sum, x) => sum + x, 0)
Sum(nums) == IF nums = <<>> THEN 0 ELSE Head(nums) + Sum(Tail(nums))

\* list.filter(keep).reduce((sum, e) => sum + val(e), 0)
SumOver(list, keep(_), val(_)) ==
  Sum([i \in DOMAIN list |-> IF keep(list[i]) THEN val(list[i]) ELSE 0])

\* totals with line 139 summing cashOut in place of cashIn
totals_CardByCashOut(s) ==
  LET outPartyEntries == FieldOr(s, "outPartyEntries", <<>>)
      mainEntries     == FieldOr(s, "mainEntries", <<>>)
      All(e)    == TRUE
      Amt(e)    == e.amount
      In(e)     == e.cashIn
      Out(e)    == e.cashOut
      IsCash(e)   == e.method = CASH
      IsCard(e)   == e.method = CARD
      IsPaypal(e) == e.method = PAYPAL
      op == [cash   |-> SumOver(outPartyEntries, IsCash, Amt),
             card   |-> SumOver(outPartyEntries, IsCard, Amt),
             paypal |-> SumOver(outPartyEntries, IsPaypal, Amt)]
      opTotal          == op.cash + op.card + op.paypal
      mainCashInTotal  == SumOver(mainEntries, All, In)
      mainCashOutTotal == SumOver(mainEntries, All, Out)
      mainCard         == SumOver(mainEntries, IsCard, Out)
      mainPaypal       == SumOver(mainEntries, IsPaypal, In)
      grandCard        == op.card + mainCard
      grandPaypal      == op.paypal + mainPaypal
      finalCashIn      == mainCashInTotal + opTotal
      finalCashOut     == mainCashOutTotal + grandCard + grandPaypal
  IN [op |-> op, grandCard |-> grandCard, grandPaypal |-> grandPaypal,
      finalCashIn |-> finalCashIn, finalCashOut |-> finalCashOut,
      finalBalance |-> finalCashIn - finalCashOut]

\* totals with line 132 counting the cash subtotal alone
totals_CashOnly(s) ==
  LET outPartyEntries == FieldOr(s, "outPartyEntries", <<>>)
      mainEntries     == FieldOr(s, "mainEntries", <<>>)
      All(e)    == TRUE
      Amt(e)    == e.amount
      In(e)     == e.cashIn
      Out(e)    == e.cashOut
      IsCash(e)   == e.method = CASH
      IsCard(e)   == e.method = CARD
      IsPaypal(e) == e.method = PAYPAL
      op == [cash   |-> SumOver(outPartyEntries, IsCash, Amt),
             card   |-> SumOver(outPartyEntries, IsCard, Amt),
             paypal |-> SumOver(outPartyEntries, IsPaypal, Amt)]
      opTotal          == op.cash
      mainCashInTotal  == SumOver(mainEntries, All, In)
      mainCashOutTotal == SumOver(mainEntries, All, Out)
      mainCard         == SumOver(mainEntries, IsCard, In)
      mainPaypal       == SumOver(mainEntries, IsPaypal, In)
      grandCard        == op.card + mainCard
      grandPaypal      == op.paypal + mainPaypal
      finalCashIn      == mainCashInTotal + opTotal
      finalCashOut     == mainCashOutTotal + grandCard + grandPaypal
  IN [op |-> op, grandCard |-> grandCard, grandPaypal |-> grandPaypal,
      finalCashIn |-> finalCashIn, finalCashOut |-> finalCashOut,
      finalBalance |-> finalCashIn - finalCashOut]

\* totals with line 152 adding the opening balance
totals_PlusOpening(s) ==
  LET outPartyEntries == FieldOr(s, "outPartyEntries", <<>>)
      mainEntries     == FieldOr(s, "mainEntries", <<>>)
      All(e)    == TRUE
      Amt(e)    == e.amount
      In(e)     == e.cashIn
      Out(e)    == e.cashOut
      IsCash(e)   == e.method = CASH
      IsCard(e)   == e.method = CARD
      IsPaypal(e) == e.method = PAYPAL
      op == [cash   |-> SumOver(outPartyEntries, IsCash, Amt),
             card   |-> SumOver(outPartyEntries, IsCard, Amt),
             paypal |-> SumOver(outPartyEntries, IsPaypal, Amt)]
      opTotal          == op.cash + op.card + op.paypal
      mainCashInTotal  == SumOver(mainEntries, All, In)
      mainCashOutTotal == SumOver(mainEntries, All, Out)
      mainCard         == SumOver(mainEntries, IsCard, In)
      mainPaypal       == SumOver(mainEntries, IsPaypal, In)
      grandCard        == op.card + mainCard
      grandPaypal      == op.paypal + mainPaypal
      finalCashIn      == mainCashInTotal + opTotal
      finalCashOut     == mainCashOutTotal + grandCard + grandPaypal
  IN [op |-> op, grandCard |-> grandCard, grandPaypal |-> grandPaypal,
      finalCashIn |-> finalCashIn, finalCashOut |-> finalCashOut,
      finalBalance |-> FieldOr(s, "openingBalance", 0) + finalCashIn - finalCashOut]

\* part_002 lines 119-155: the totals memo
totals(s) ==
  LET outPartyEntries == FieldOr(s, "outPartyEntries", <<>>)
      mainEntries     == FieldOr(s, "mainEntries", <<>>)
      All(e)    == TRUE
      Amt(e)    == e.amount
      In(e)     == e.cashIn
      Out(e)    == e.cashOut
      IsCash(e)   == e.method = CASH
      IsCard(e)   == e.method = CARD
      IsPaypal(e) == e.method = PAYPAL
      op == [cash   |-> SumOver(outPartyEntries, IsCash, Amt),
             card   |-> SumOver(outPartyEntries, IsCard, Amt),
             paypal |-> SumOver(outPartyEntries, IsPaypal, Amt)]
      opTotal          == op.cash + op.card + op.paypal
      mainCashInTotal  == SumOver(mainEntries, All, In)
      mainCashOutTotal == SumOver(mainEntries, All, Out)
      mainCard         == SumOver(mainEntries, IsCard, In)
      mainPaypal       == SumOver(mainEntries, IsPaypal, In)
      grandCard        == op.card + mainCard
      grandPaypal      == op.paypal + mainPaypal
      finalCashIn      == mainCashInTotal + opTotal
      finalCashOut     == mainCashOutTotal + grandCard + grandPaypal
  IN [op |-> op, grandCard |-> grandCard, grandPaypal |-> grandPaypal,
      finalCashIn |-> finalCashIn, finalCashOut |-> finalCashOut,
      finalBalance |-> finalCashIn - finalCashOut]

\* obj[k] ?? dflt
Coalesce(obj, k, dflt) == IF Has(obj, k) THEN obj[k] ELSE dflt

\* part_002 lines 243-256: the numbers the three highlight cards render for
\* snapshot s
HighlightTotals(s) ==
  [totalCashIn  |-> Coalesce(totals(s), "finalIn", 0),
   totalCashOut |-> Coalesce(totals(s), "finalOut", 0),
   finalBalance |-> Coalesce(totals(s), "finalBalance", 0)]

(***************************************************************************)
(* Initial state: both devices have just mounted App.  The effect of       *)
(* part_002 lines 52-106 has issued the initial getState and fetchRates;   *)
(* nothing is stored locally and the blob is as provisioned.               *)
(***************************************************************************)
\* A getState call: kind "init" (line 66) or "tick" (line 76); phase "sent",
\* "ok" (a 2xx answer with JSON text body) or "fail"; at: Date.now() at the call.
Get(kind, phase, body, at) ==
  [kind |-> kind, phase |-> phase, body |-> body, at |-> at]

Init ==
  /\ state        = [d \in Dev |-> DefaultState]
  /\ stateJsonRef = [d \in Dev |-> Stringify(DefaultState)]
  /\ cache        = [d \in Dev |-> NoItem]
  /\ historyStore = [d \in Dev |-> NoItem]
  /\ remote       = EmptyBlob
  /\ puts         = [d \in Dev |-> {}]
  /\ gets         = [d \in Dev |-> SetToBag({Get("init", "sent", <<>>, 1)})]
  /\ ratesReq     = [d \in Dev |-> TRUE]
  /\ savePromise  = [d \in Dev |-> "none"]
  /\ accepted     = 0
  /\ clock        = 1
  /\ today        = 0
  /\ nextId       = 1
  /\ thrown       = [d \in Dev |-> FALSE]

(***************************************************************************)
(* The sync service (part_001 lines 101-173).                              *)
(***************************************************************************)
HistoryCap == 100

\* The archive text: one <<date, text of data>> pair per record.
HistoryStringify(h) == [i \in DOMAIN h |-> <<h[i].date, Stringify(h[i].data)>>]
HistoryWellFormed(txt) == \A i \in DOMAIN txt : Len(txt[i]) = 2
HistoryParse(txt) ==
  [i \in DOMAIN txt |-> [date |-> txt[i][1], data |-> JsonParse(txt[i][2])]]

\* part_001 lines 165-173
getHistory(d) ==
  IF historyStore[d] = NoItem THEN <<>>
  ELSE IF HistoryWellFormed(historyStore[d][1]) THEN HistoryParse(historyStore[d][1])
  ELSE <<>>

\* saveToHistory without the unshift of line 161
saveToHistoryText_NoUnshift(d, record) ==
  HistoryStringify(getHistory(d))

\* saveToHistory without the slice of line 162
saveToHistoryText_NoCap(d, record) ==
  HistoryStringify(<<record>> \o getHistory(d))

\* part_001 lines 159-163: the text saveToHistory stores
saveToHistoryText(d, record) ==
  LET history == <<record>> \o getHistory(d)
  IN HistoryStringify(SubSeq(history, 1, IF Len(history) < HistoryCap
                                           THEN Len(history) ELSE HistoryCap))

\* part_001 lines 159-163: saveToHistory(record); quota: setItem throws, and
\* the exception leaves saveToHistory.
saveToHistory(d, record, quota) ==
  /\ IF quota
     THEN /\ thrown' = [thrown EXCEPT ![d] = TRUE]
          /\ UNCHANGED historyStore
     ELSE /\ historyStore' = [historyStore EXCEPT ![d] =
               Item(saveToHistoryText(d, record))]
          /\ UNCHANGED thrown
  /\ UNCHANGED <<state, stateJsonRef, cache, remote, puts, gets, ratesReq,
                 savePromise, accepted, clock, today, nextId>>

\* part_001 line 116-119: the body of the PUT
PutBody(s, now) == Stringify(Assign(s, "lastSyncTimestamp", now))

\* saveState without the local backup of line 105
saveStateCall_NoBackup(d, s, quota) ==
  /\ puts'  = [puts EXCEPT ![d] = @ \cup {PutBody(s, clock)}]
  /\ savePromise' = [savePromise EXCEPT ![d] = "pending"]
  /\ UNCHANGED cache

\* part_001 lines 101-120: saveState up to its await.  setItem is outside the
\* try: when it throws (quota), the promise rejects and no PUT is sent.
saveStateCall(d, s, quota) ==
  IF quota
  THEN /\ savePromise' = [savePromise EXCEPT ![d] = "rejected"]
       /\ UNCHANGED <<cache, puts>>
  ELSE /\ cache' = [cache EXCEPT ![d] = Item(Stringify(s))]
       /\ puts'  = [puts EXCEPT ![d] = @ \cup {PutBody(s, clock)}]
       /\ savePromise' = [savePromise EXCEPT ![d] = "pending"]

\* The lastSyncTimestamp written into a PUT body
TsOf(body) == body[Len(body)][2]

\* part_001 lines 121-125: the PUT settles; saveState returns response.ok, or
\* false from the catch.
PutSettle(d, outcome) ==
  \E body \in puts[d] :
    /\ puts' = [puts EXCEPT ![d] = @ \ {body}]
    /\ remote' = IF outcome = "ok" THEN body ELSE remote
    /\ accepted' = IF outcome = "ok" /\ TsOf(body) > accepted
                   THEN TsOf(body) ELSE accepted
    /\ savePromise' =
         IF TsOf(body) = clock - 1
         THEN [savePromise EXCEPT ![d] = IF outcome = "ok" THEN "true" ELSE "false"]
         ELSE savePromise
    /\ UNCHANGED <<state, stateJsonRef, cache, historyStore, gets, ratesReq,
                   clock, today, nextId, thrown>>

\* The getState calls explored in flight at a time on device d.
InFlightBound(d) == IF isLaptop(d) THEN MaxInFlight ELSE MaxOverlap

\* part_001 lines 128-139: getState sends the GET
getStateCall(d, kind) ==
  /\ BagCardinality(gets[d]) < InFlightBound(d)
  /\ gets' = [gets EXCEPT ![d] = @ (+) SetToBag({Get(kind, "sent", <<>>, clock)})]

\* The relay answers a GET with the blob it holds then, or the request fails
\* (transport error, non-2xx status, or a body response.json() rejects).
GetServe(d, outcome) ==
  \E g \in BagToSet(gets[d]) :
    /\ g.phase = "sent"
    /\ gets' = [gets EXCEPT ![d] =
         (@ (-) SetToBag({g})) (+)
         SetToBag({IF outcome = "ok" THEN Get(g.kind, "ok", remote, g.at)
                                      ELSE Get(g.kind, "fail", <<>>, g.at)})]
    /\ UNCHANGED <<state, stateJsonRef, cache, historyStore, remote, puts,
                   ratesReq, savePromise, accepted, clock, today, nextId, thrown>>

\* getState without lines 150-156: null whenever the relay gave no snapshot
getStateResult_NoFallback(d, g) ==
  LET data == JsonParse(g.body)
  IN IF /\ g.phase = "ok"
        /\ WellFormed(g.body)
        /\ (Has(data, "outPartyEntries") \/ Has(data, "mainEntries"))
     THEN Some(data)
     ELSE Null

\* part_001 lines 140-156: what getState resolves to once the response is in
getStateResult(d, g) ==
  LET data == JsonParse(g.body)
  IN IF /\ g.phase = "ok"
        /\ WellFormed(g.body)
        /\ (Has(data, "outPartyEntries") \/ Has(data, "mainEntries"))
     THEN Some(data)
     ELSE IF cache[d] = NoItem THEN Null
     ELSE IF WellFormed(cache[d][1]) THEN Some(JsonParse(cache[d][1]))
     ELSE Null

(***************************************************************************)
(* App (part_002).                                                         *)
(***************************************************************************)
\* part_002 lines 67 and 77: s && s.outPartyEntries && s.mainEntries
Usable(r) ==
  /\ r # Null
  /\ Has(r[1], "outPartyEntries")
  /\ Has(r[1], "mainEntries")

\* part_002 lines 66-71: the initial fetch resolves
InitialFetchDone(d) ==
  \E g \in BagToSet(gets[d]) :
    /\ g.kind = "init"
    /\ g.phase # "sent"
    /\ gets' = [gets EXCEPT ![d] = @ (-) SetToBag({g})]
    /\ LET s == getStateResult(d, g)
       IN IF Usable(s)
          THEN /\ state' = [state EXCEPT ![d] = s[1]]
               /\ stateJsonRef' = [stateJsonRef EXCEPT ![d] = Stringify(s[1])]
          ELSE UNCHANGED <<state, stateJsonRef>>
    /\ UNCHANGED <<cache, historyStore, remote, puts, ratesReq, savePromise,
                   accepted, clock, today, nextId, thrown>>

\* part_002 lines 75-76: the interval fires and syncLoop calls getState
SyncLoopFire(d) ==
  /\ getStateCall(d, "tick")
  /\ UNCHANGED <<state, stateJsonRef, cache, historyStore, remote, puts,
                 ratesReq, savePromise, accepted, clock, today, nextId, thrown>>

\* syncLoop without line 81: the marker is left as it was
syncLoopAdopt_StateOnly(d, cloud) ==
  IF Usable(cloud) /\ Stringify(cloud[1]) # stateJsonRef[d]
  THEN /\ state' = [state EXCEPT ![d] = cloud[1]]
       /\ UNCHANGED stateJsonRef
  ELSE UNCHANGED <<state, stateJsonRef>>

\* part_002 lines 77-83: what syncLoop does with the value getState resolved to
syncLoopAdopt(d, cloud) ==
  IF Usable(cloud) /\ Stringify(cloud[1]) # stateJsonRef[d]
  THEN /\ state' = [state EXCEPT ![d] = cloud[1]]
       /\ stateJsonRef' = [stateJsonRef EXCEPT ![d] = Stringify(cloud[1])]
  ELSE UNCHANGED <<state, stateJsonRef>>

\* part_002 lines 76-83: the awaited getState of a tick resolves
SyncLoopDone(d) ==
  \E g \in BagToSet(gets[d]) :
    /\ g.kind = "tick"
    /\ g.phase # "sent"
    /\ gets' = [gets EXCEPT ![d] = @ (-) SetToBag({g})]
    /\ syncLoopAdopt(d, getStateResult(d, g))
    /\ UNCHANGED <<cache, historyStore, remote, puts, ratesReq, savePromise,
                   accepted, clock, today, nextId, thrown>>

\* Math.ceil(a / b) for positive integers
CeilDiv(a, b) == (a + b - 1) \div b

\* What the exchange-rate API answers: rates per USD, in hundredths.
RateFeed == {[LKR |-> 29950, EUR |-> 92]}

\* part_002 lines 87-99: fetchRates resolves (or throws into the empty catch)
FetchRatesDone(d) ==
  /\ ratesReq[d]
  /\ ratesReq' = [ratesReq EXCEPT ![d] = FALSE]
  /\ \/ \E data \in RateFeed :
          LET usd  == CeilDiv(data.LKR, 100)
              eur  == CeilDiv(data.LKR, data.EUR)
              next == Assign(state[d], "exchangeRates", [usd |-> usd, eur |-> eur])
          IN /\ state' = [state EXCEPT ![d] = next]
             /\ stateJsonRef' = [stateJsonRef EXCEPT ![d] = Stringify(next)]
     \/ UNCHANGED <<state, stateJsonRef>>
  /\ UNCHANGED <<cache, historyStore, remote, puts, gets, savePromise,
                 accepted, clock, today, nextId, thrown>>

\* part_002 lines 111-116
masterUpdate(d, next, quota) ==
  IF ~isLaptop(d)
  THEN UNCHANGED <<state, stateJsonRef, cache, puts, savePromise, clock>>
  ELSE /\ state' = [state EXCEPT ![d] = next]
       /\ stateJsonRef' = [stateJsonRef EXCEPT ![d] = Stringify(next)]
       /\ saveStateCall(d, next, quota)
       /\ clock' = clock + 1

\* The laptop's writes explored.
Budget(d) == isLaptop(d) => clock <= MaxWrites

\* The id crypto.randomUUID() returns; the one a viewer draws is dropped
\* with the entry.
DrawId(d) == nextId' = IF isLaptop(d) THEN nextId + 1 ELSE nextId

Ids(list) == {list[i].id : i \in DOMAIN list}

\* part_002 lines 158-161
addOP(d, quota) ==
  LET outPartyEntries == FieldOr(state[d], "outPartyEntries", <<>>)
      entry == [id |-> nextId, index |-> Len(outPartyEntries) + 1,
                amount |-> 0, method |-> CASH]
  IN /\ Budget(d)
     /\ masterUpdate(d, Assign(state[d], "outPartyEntries",
                               Append(outPartyEntries, entry)), quota)
     /\ DrawId(d)
     /\ UNCHANGED <<historyStore, remote, gets, ratesReq, accepted, today, thrown>>

\* part_002 lines 163-167
editOP(d, id, field, val, quota) ==
  LET outPartyEntries == FieldOr(state[d], "outPartyEntries", <<>>)
      next == [i \in DOMAIN outPartyEntries |->
                 IF outPartyEntries[i].id = id
                 THEN [outPartyEntries[i] EXCEPT ![field] = val]
                 ELSE outPartyEntries[i]]
  IN /\ Budget(d)
     /\ masterUpdate(d, Assign(state[d], "outPartyEntries", next), quota)
     /\ UNCHANGED <<historyStore, remote, gets, ratesReq, accepted, today, nextId, thrown>>

\* list.filter(e => e.id !== id)
WithoutId(list, id) == SelectSeq(list, LAMBDA e : e.id # id)

\* delOP without the map of line 171 that renumbers
delOP_NoRenumber(d, id, quota) ==
  LET outPartyEntries == FieldOr(state[d], "outPartyEntries", <<>>)
  IN /\ Budget(d)
     /\ masterUpdate(d, Assign(state[d], "outPartyEntries",
                               WithoutId(outPartyEntries, id)), quota)
     /\ UNCHANGED <<historyStore, remote, gets, ratesReq, accepted, today, nextId, thrown>>

\* part_002 lines 169-173
delOP(d, id, quota) ==
  LET outPartyEntries == FieldOr(state[d], "outPartyEntries", <<>>)
      kept == WithoutId(outPartyEntries, id)
      next == [i \in DOMAIN kept |-> [kept[i] EXCEPT !.index = i]]
  IN /\ Budget(d)
     /\ masterUpdate(d, Assign(state[d], "outPartyEntries", next), quota)
     /\ UNCHANGED <<historyStore, remote, gets, ratesReq, accepted, today, nextId, thrown>>

\* part_002 lines 175-178
addM(d, quota) ==
  LET mainEntries == FieldOr(state[d], "mainEntries", <<>>)
      entry == [id |-> nextId, roomNo |-> "", description |-> "",
                method |-> CASH, cashIn |-> 0, cashOut |-> 0]
  IN /\ Budget(d)
     /\ masterUpdate(d, Assign(state[d], "mainEntries",
                               Append(mainEntries, entry)), quota)
     /\ DrawId(d)
     /\ UNCHANGED <<historyStore, remote, gets, ratesReq, accepted, today, thrown>>

\* part_002 lines 180-184
editM(d, id, field, val, quota) ==
  LET mainEntries == FieldOr(state[d], "mainEntries", <<>>)
      next == [i \in DOMAIN mainEntries |->
                 IF mainEntries[i].id = id
                 THEN [mainEntries[i] EXCEPT ![field] = val]
                 ELSE mainEntries[i]]
  IN /\ Budget(d)
     /\ masterUpdate(d, Assign(state[d], "mainEntries", next), quota)
     /\ UNCHANGED <<historyStore, remote, gets, ratesReq, accepted, today, nextId, thrown>>

\* part_002 lines 186-189
delM(d, id, quota) ==
  LET mainEntries == FieldOr(state[d], "mainEntries", <<>>)
  IN /\ Budget(d)
     /\ masterUpdate(d, Assign(state[d], "mainEntries", WithoutId(mainEntries, id)),
                     quota)
     /\ UNCHANGED <<historyStore, remote, gets, ratesReq, accepted, today, nextId, thrown>>

\* doDayEnd with line 200 resetting the exchange rates
doDayEnd_ResetRates(d, confirmed, quotaH, quota) ==
  /\ Budget(d)
  /\ Len(getHistory(d)) < MaxArchive
  /\ IF ~confirmed
     THEN UNCHANGED <<state, stateJsonRef, cache, historyStore, puts, savePromise,
                      clock, thrown>>
     ELSE IF quotaH
     THEN /\ thrown' = [thrown EXCEPT ![d] = TRUE]
          /\ UNCHANGED <<state, stateJsonRef, cache, historyStore, puts,
                         savePromise, clock>>
     ELSE /\ historyStore' = [historyStore EXCEPT ![d] =
               Item(saveToHistoryText(d, [date |-> state[d].currentDate,
                                          data |-> state[d]]))]
          /\ masterUpdate(d,
               [currentDate     |-> ToLocaleDateString(today + 1),
                outPartyEntries |-> <<>>,
                mainEntries     |-> <<>>,
                exchangeRates   |-> DefaultState.exchangeRates,
                openingBalance  |-> totals(state[d]).finalBalance],
               quota)
          /\ UNCHANGED thrown
  /\ UNCHANGED <<remote, gets, ratesReq, accepted, today, nextId>>

\* doDayEnd with line 200 adding the opening balance to the final balance
doDayEnd_CarryOpening(d, confirmed, quotaH, quota) ==
  /\ Budget(d)
  /\ Len(getHistory(d)) < MaxArchive
  /\ IF ~confirmed
     THEN UNCHANGED <<state, stateJsonRef, cache, historyStore, puts, savePromise,
                      clock, thrown>>
     ELSE IF quotaH
     THEN /\ thrown' = [thrown EXCEPT ![d] = TRUE]
          /\ UNCHANGED <<state, stateJsonRef, cache, historyStore, puts,
                         savePromise, clock>>
     ELSE /\ historyStore' = [historyStore EXCEPT ![d] =
               Item(saveToHistoryText(d, [date |-> state[d].currentDate,
                                          data |-> state[d]]))]
          /\ masterUpdate(d,
               [currentDate     |-> ToLocaleDateString(today + 1),
                outPartyEntries |-> <<>>,
                mainEntries     |-> <<>>,
                exchangeRates   |-> state[d].exchangeRates,
                openingBalance  |-> state[d].openingBalance
                                      + totals(state[d]).finalBalance],
               quota)
          /\ UNCHANGED thrown
  /\ UNCHANGED <<remote, gets, ratesReq, accepted, today, nextId>>

\* part_002 lines 191-203.  confirmed: the answer to confirm(); quotaH, quota:
\* whether the setItem of saveToHistory, of saveState, throws.  The exception
\* of saveToHistory (part_001 line 162, no try) leaves doDayEnd at line 193.
doDayEnd(d, confirmed, quotaH, quota) ==
  /\ Budget(d)
  /\ Len(getHistory(d)) < MaxArchive
  /\ IF ~confirmed
     THEN UNCHANGED <<state, stateJsonRef, cache, historyStore, puts, savePromise,
                      clock, thrown>>
     ELSE IF quotaH
     THEN /\ thrown' = [thrown EXCEPT ![d] = TRUE]
          /\ UNCHANGED <<state, stateJsonRef, cache, historyStore, puts,
                         savePromise, clock>>
     ELSE /\ historyStore' = [historyStore EXCEPT ![d] =
               Item(saveToHistoryText(d, [date |-> state[d].currentDate,
                                          data |-> state[d]]))]
          /\ masterUpdate(d,
               [currentDate     |-> ToLocaleDateString(today + 1),
                outPartyEntries |-> <<>>,
                mainEntries     |-> <<>>,
                exchangeRates   |-> state[d].exchangeRates,
                openingBalance  |-> totals(state[d]).finalBalance],
               quota)
          /\ UNCHANGED thrown
  /\ UNCHANGED <<remote, gets, ratesReq, accepted, today, nextId>>

\* Midnight passes.
Midnight ==
  /\ today < MaxDays
  /\ today' = today + 1
  /\ UNCHANGED <<state, stateJsonRef, cache, historyStore, remote, puts, gets,
                 ratesReq, savePromise, accepted, clock, nextId, thrown>>

(***************************************************************************)
(* The number inputs (part_002 lines 282-289, 360, 363).  The text of an   *)
(* input is the sequence of its characters; the result of parseFloat is a  *)
(* sequence of length 0 (NaN) or 1 (the number).  Whole numbers only.      *)
(***************************************************************************)
Digits == <<"0", "1", "2", "3", "4", "5", "6", "7", "8", "9">>

IsDigit(c)  == \E i \in DOMAIN Digits : Digits[i] = c
DigitVal(c) == (CHOOSE i \in DOMAIN Digits : Digits[i] = c) - 1

RECURSIVE LeadingDigits(_)
\* The number of digits txt starts with.
LeadingDigits(txt) ==
  IF txt # <<>> /\ IsDigit(Head(txt)) THEN 1 + LeadingDigits(Tail(txt)) ELSE 0

RECURSIVE DigitsValue(_, _)
\* The number written by the first n characters of txt, all digits.
DigitsValue(txt, n) ==
  IF n = 0 THEN 0 ELSE 10 * DigitsValue(txt, n - 1) + DigitVal(txt[n])

NaN == <<>>

\* parseFloat(txt): an optional sign and the digits that follow it; what
\* comes after the digits is ignored, and with no digit the result is NaN.
ParseFloat(txt) ==
  LET signed == txt # <<>> /\ Head(txt) \in {"-", "+"}
      body   == IF signed THEN Tail(txt) ELSE txt
      n      == LeadingDigits(body)
  IN IF n = 0 THEN NaN
     ELSE IF signed /\ Head(txt) = "-" THEN <<0 - DigitsValue(body, n)>>
     ELSE <<DigitsValue(body, n)>>

\* x || 0 of a parseFloat result: NaN and 0 are falsy
OrZero(x) == IF x = NaN THEN 0 ELSE x[1]

\* part_002 line 286: onChange of the amount input
amountOnChange(d, id, txt, quota) ==
  editOP(d, id, "amount", OrZero(ParseFloat(txt)), quota)

\* part_002 line 360: onChange of the cashIn input
cashInOnChange(d, id, txt, quota) ==
  editM(d, id, "cashIn", OrZero(ParseFloat(txt)), quota)

\* part_002 line 363: onChange of the cashOut input
cashOutOnChange(d, id, txt, quota) ==
  editM(d, id, "cashOut", OrZero(ParseFloat(txt)), quota)

(***************************************************************************)
(* The events, by the devices D they happen on and the inputs explored:    *)
(* Q, whether localStorage.setItem may throw; V, the values typed.         *)
(***************************************************************************)
Methods == {CASH, CARD, PAYPAL}

Laptops == {d \in Dev : isLaptop(d)}
Mobiles == Dev \ Laptops

OutPartyIds(d) == Ids(FieldOr(state[d], "outPartyEntries", <<>>))
MainIds(d)     == Ids(FieldOr(state[d], "mainEntries", <<>>))

PutOutcomes == {"ok", "http_error", "network_error"}
GetFailures == {"http_error", "network_error", "bad_json"}

AddOP(D, Q)        == \E d \in D, q \in Q : addOP(d, q)
EditOP(D, Q, f, V) == \E d \in D, q \in Q, v \in V :
                        \E id \in OutPartyIds(d) : editOP(d, id, f, v, q)
DelOP(D, Q)        == \E d \in D, q \in Q :
                        \E id \in OutPartyIds(d) : delOP(d, id, q)
AddM(D, Q)         == \E d \in D, q \in Q : addM(d, q)
EditM(D, Q, f, V)  == \E d \in D, q \in Q, v \in V :
                        \E id \in MainIds(d) : editM(d, id, f, v, q)
DelM(D, Q)         == \E d \in D, q \in Q :
                        \E id \in MainIds(d) : delM(d, id, q)
DayEnd(D, Q)       == \E d \in D, c \in BOOLEAN, qh \in Q, q \in Q :
                        doDayEnd(d, c, qh, q)
Tick(D)            == \E d \in D : SyncLoopFire(d)
TickDone(D)        == \E d \in D : SyncLoopDone(d)
InitDone(D)        == \E d \in D : InitialFetchDone(d)
ServeOk(D)         == \E d \in D : GetServe(d, "ok")
ServeFail(D)       == \E d \in D, o \in GetFailures : GetServe(d, o)
Settle(D)          == \E d \in D, o \in PutOutcomes : PutSettle(d, o)
Rates(D)           == \E d \in D : FetchRatesDone(d)

(***************************************************************************)
(* SpecLaptop: the writer alone against the relay; localStorage has room.  *)
(***************************************************************************)
NextLaptop ==
  \/ AddOP(Laptops, {FALSE})
  \/ EditOP(Laptops, {FALSE}, "amount", {50})
  \/ Tick(Laptops) \/ TickDone(Laptops) \/ InitDone(Laptops)
  \/ ServeOk(Laptops) \/ ServeFail(Laptops)
  \/ Settle(Laptops) \/ Rates(Laptops)

SpecLaptop == Init /\ [][NextLaptop]_vars

(***************************************************************************)
(* SpecStorage: the writer alone, with a localStorage that may be full.    *)
(***************************************************************************)
NextStorage ==
  \/ AddOP(Laptops, BOOLEAN)
  \/ EditOP(Laptops, BOOLEAN, "amount", {50})
  \/ DelOP(Laptops, BOOLEAN)
  \/ DayEnd(Laptops, BOOLEAN)
  \/ Tick(Laptops) \/ TickDone(Laptops) \/ InitDone(Laptops)
  \/ ServeOk(Laptops) \/ ServeFail(Laptops)
  \/ Settle(Laptops)

SpecStorage == Init /\ [][NextStorage]_vars

(***************************************************************************)
(* SpecViewer: the laptop writes, the mobile polls and its user tries      *)
(* every handler.                                                          *)
(***************************************************************************)
NextViewer ==
  \/ AddOP(Laptops, {FALSE})
  \/ AddM(Laptops, {FALSE})
  \/ Settle(Laptops)
  \/ AddOP(Mobiles, BOOLEAN)
  \/ EditOP(Mobiles, BOOLEAN, "amount", {50})
  \/ EditOP(Mobiles, BOOLEAN, "method", {CARD, PAYPAL})
  \/ DelOP(Mobiles, BOOLEAN)
  \/ AddM(Mobiles, BOOLEAN)
  \/ EditM(Mobiles, BOOLEAN, "cashIn", {50})
  \/ EditM(Mobiles, BOOLEAN, "cashOut", {50})
  \/ EditM(Mobiles, BOOLEAN, "method", {CARD, PAYPAL})
  \/ DelM(Mobiles, BOOLEAN)
  \/ DayEnd(Mobiles, BOOLEAN)
  \/ Tick(Mobiles) \/ TickDone(Mobiles) \/ InitDone(Mobiles)
  \/ ServeOk(Mobiles) \/ ServeFail(Mobiles)
  \/ Rates(Mobiles)

SpecViewer == Init /\ [][NextViewer]_vars

(***************************************************************************)
(* SpecConverge: the writer mutates and its PUTs settle while the viewer   *)
(* polls.  The interval of part_002 line 75 keeps firing and the promise   *)
(* continuations of lines 66 and 76 run once their response is in (weak    *)
(* fairness); a GET that is sent again and again is answered with the blob *)
(* some time (strong fairness, failures may come in between).              *)
(***************************************************************************)
NextConverge ==
  \/ AddOP(Laptops, {FALSE})
  \/ Settle(Laptops)
  \/ Tick(Mobiles) \/ TickDone(Mobiles) \/ InitDone(Mobiles)
  \/ ServeOk(Mobiles) \/ ServeFail(Mobiles)
  \/ Rates(Mobiles)

FairConverge ==
  /\ WF_vars(Tick(Mobiles))
  /\ WF_vars(TickDone(Mobiles))
  /\ WF_vars(InitDone(Mobiles))
  /\ SF_vars(ServeOk(Mobiles))

SpecConverge == Init /\ [][NextConverge]_vars /\ FairConverge

(***************************************************************************)
(* SpecStored: the laptop mounts App over a localStorage that an earlier   *)
(* session, or anything else writing the origin's storage, has left        *)
(* behind.                                                                 *)
(***************************************************************************)
\* A snapshot an earlier session saved: one out-party entry of 50 in cash.
StoredSnapshot ==
  Assign(DefaultState, "outPartyEntries",
         <<[id |-> 0, index |-> 1, amount |-> 50, method |-> CASH]>>)

\* The text {"outPartyEntries":[],"mainEntries":[]}: JSON, but no CashBookState.
ListsOnly == <<<<"outPartyEntries", <<>>>>, <<"mainEntries", <<>>>>>>

\* What localStorage.getItem(STORAGE_KEY) may give at mount.
StoredCaches ==
  {NoItem, Item(Corrupt), Item(ListsOnly), Item(Stringify(StoredSnapshot))}

InitStored ==
  /\ state        = [d \in Dev |-> DefaultState]
  /\ stateJsonRef = [d \in Dev |-> Stringify(DefaultState)]
  /\ cache        \in [Dev -> StoredCaches]
  /\ \A d \in Mobiles : cache[d] = NoItem
  /\ historyStore = [d \in Dev |-> NoItem]
  /\ remote       = EmptyBlob
  /\ puts         = [d \in Dev |-> {}]
  /\ gets         = [d \in Dev |-> SetToBag({Get("init", "sent", <<>>, 1)})]
  /\ ratesReq     = [d \in Dev |-> TRUE]
  /\ savePromise  = [d \in Dev |-> "none"]
  /\ accepted     = 0
  /\ clock        = 1
  /\ today        = 0
  /\ nextId       = 1
  /\ thrown       = [d \in Dev |-> FALSE]

NextStored ==
  \/ AddOP(Laptops, {FALSE})
  \/ Settle(Laptops)
  \/ Tick(Laptops) \/ TickDone(Laptops) \/ InitDone(Laptops)
  \/ ServeOk(Laptops) \/ ServeFail(Laptops)
  \/ Rates(Laptops)

SpecStored == InitStored /\ [][NextStored]_vars

(***************************************************************************)
(* SpecRelay: the laptop mounts App while the blob at CLOUD_URL holds what *)
(* any client of the relay has put there, and its own cache is unset or    *)
(* holds the snapshot of an earlier session.                               *)
(***************************************************************************)
\* The texts {"outPartyEntries":[]} and {"mainEntries":[]}.
OutPartyOnly == <<<<"outPartyEntries", <<>>>>>>
MainOnly     == <<<<"mainEntries", <<>>>>>>

\* What the relay may hold at mount.
RelayPayloads ==
  {EmptyBlob, Corrupt, OutPartyOnly, MainOnly, PutBody(StoredSnapshot, 0)}

InitRelay ==
  /\ state        = [d \in Dev |-> DefaultState]
  /\ stateJsonRef = [d \in Dev |-> Stringify(DefaultState)]
  /\ cache        \in [Dev -> {NoItem, Item(Stringify(StoredSnapshot))}]
  /\ \A d \in Mobiles : cache[d] = NoItem
  /\ historyStore = [d \in Dev |-> NoItem]
  /\ remote       \in RelayPayloads
  /\ puts         = [d \in Dev |-> {}]
  /\ gets         = [d \in Dev |-> SetToBag({Get("init", "sent", <<>>, 1)})]
  /\ ratesReq     = [d \in Dev |-> TRUE]
  /\ savePromise  = [d \in Dev |-> "none"]
  /\ accepted     = 0
  /\ clock        = 1
  /\ today        = 0
  /\ nextId       = 1
  /\ thrown       = [d \in Dev |-> FALSE]

NextRelay ==
  \/ AddOP(Laptops, {FALSE})
  \/ Settle(Laptops)
  \/ Tick(Laptops) \/ TickDone(Laptops) \/ InitDone(Laptops)
  \/ ServeOk(Laptops) \/ ServeFail(Laptops)
  \/ Rates(Laptops)

SpecRelay == InitRelay /\ [][NextRelay]_vars

(***************************************************************************)
(* SpecArchive: the archive of the service on its own.  saveToHistory is   *)
(* called once per calendar day with that day's record, over a             *)
(* localStorage whose archive item is unset or unparsable.                 *)
(***************************************************************************)
\* A text under HISTORY_KEY that JSON.parse throws on.
CorruptArchive == <<<<"[{\"date">>>>

StoredArchives == {NoItem, Item(CorruptArchive)}

\* The day count of a date.
DayNumber(date) ==
  CHOOSE n \in 0..(MaxAppends + 1) : ToLocaleDateString(n) = date

\* The record of day n: the snapshot of that day, still empty.
ArchiveRecordOf(n) ==
  [date |-> ToLocaleDateString(n),
   data |-> Assign(DefaultState, "currentDate", ToLocaleDateString(n))]

\* The day count of the newest record archived on d, 0 when there is none.
NewestDay(d) ==
  IF getHistory(d) = <<>> THEN 0 ELSE DayNumber(getHistory(d)[1].date)

InitArchive ==
  /\ state        = [d \in Dev |-> DefaultState]
  /\ stateJsonRef = [d \in Dev |-> Stringify(DefaultState)]
  /\ cache        = [d \in Dev |-> NoItem]
  /\ historyStore \in [Dev -> StoredArchives]
  /\ \A d \in Mobiles : historyStore[d] = NoItem
  /\ remote       = EmptyBlob
  /\ puts         = [d \in Dev |-> {}]
  /\ gets         = [d \in Dev |-> SetToBag({Get("init", "sent", <<>>, 1)})]
  /\ ratesReq     = [d \in Dev |-> TRUE]
  /\ savePromise  = [d \in Dev |-> "none"]
  /\ accepted     = 0
  /\ clock        = 1
  /\ today        = 0
  /\ nextId       = 1
  /\ thrown       = [d \in Dev |-> FALSE]

AppendArchive(D) ==
  \E d \in D, n \in 1..MaxAppends :
    /\ n = NewestDay(d) + 1
    /\ saveToHistory(d, ArchiveRecordOf(n), FALSE)

NextArchive == AppendArchive(Laptops)

SpecArchive == InitArchive /\ [][NextArchive]_vars

(***************************************************************************)
(* SpecTotals: the laptop mounts App while the relay and its own cache     *)
(* hold the ledger an earlier session pushed; the initial fetch loads it   *)
(* and the exchange rates are refreshed.                                   *)
(***************************************************************************)
OutPartyAmounts == {50, 100}
MainCashIns     == {40, 200}
MainCashOuts    == {0, 30}
OpeningBalances == {0, 270}

\* The out-party entry addOP appended as the i-th, after its edits.
StoredOutParty(i, amount, method) ==
  [id |-> i, index |-> i, amount |-> amount, method |-> method]

\* The main entry addM appended with id i, after its edits.
StoredMain(i, method, cashIn, cashOut) ==
  [id |-> i, roomNo |-> "", description |-> "", method |-> method,
   cashIn |-> cashIn, cashOut |-> cashOut]

OutPartyLists ==
  {<<>>}
  \cup {<<StoredOutParty(1, a, m)>> : a \in OutPartyAmounts, m \in Methods}
  \cup {<<StoredOutParty(1, a, m), StoredOutParty(2, b, n)>> :
          a \in OutPartyAmounts, m \in Methods,
          b \in OutPartyAmounts, n \in Methods}

MainLists ==
  {<<>>}
  \cup {<<StoredMain(3, m, i, o)>> :
          m \in Methods, i \in MainCashIns, o \in MainCashOuts}
  \cup {<<StoredMain(3, m, i, o), StoredMain(4, n, j, q)>> :
          m \in Methods, i \in MainCashIns, o \in MainCashOuts,
          n \in Methods, j \in MainCashIns, q \in MainCashOuts}

\* A snapshot of day 1 with the given lists and opening balance.
Ledger1(op, main, opening) ==
  [currentDate     |-> ToLocaleDateString(1),
   outPartyEntries |-> op,
   mainEntries     |-> main,
   exchangeRates   |-> [usd |-> 310, eur |-> 366],
   openingBalance  |-> opening]

LedgerInputs ==
  {Ledger1(op, main, ob) :
     op \in OutPartyLists, main \in MainLists, ob \in OpeningBalances}

\* part_002 lines 38-44 evaluated on day n
DefaultStateOn(n) == Assign(DefaultState, "currentDate", ToLocaleDateString(n))

\* App has just mounted on day 1; an earlier session pushed snapshot S with
\* lastSyncTimestamp 0, and the laptop's cache holds S too.
InitHolding(S) ==
  /\ state        = [d \in Dev |-> DefaultStateOn(1)]
  /\ stateJsonRef = [d \in Dev |-> Stringify(DefaultStateOn(1))]
  /\ cache        = [d \in Dev |-> IF isLaptop(d) THEN Item(Stringify(S))
                                                  ELSE NoItem]
  /\ historyStore = [d \in Dev |-> NoItem]
  /\ remote       = PutBody(S, 0)
  /\ puts         = [d \in Dev |-> {}]
  /\ gets         = [d \in Dev |-> SetToBag({Get("init", "sent", <<>>, 1)})]
  /\ ratesReq     = [d \in Dev |-> TRUE]
  /\ savePromise  = [d \in Dev |-> "none"]
  /\ accepted     = 0
  /\ clock        = 1
  /\ today        = 1
  /\ nextId       = 5
  /\ thrown       = [d \in Dev |-> FALSE]

InitTotals == \E S \in LedgerInputs : InitHolding(S)

NextTotals ==
  \/ InitDone(Laptops)
  \/ ServeOk(Laptops) \/ ServeFail(Laptops)
  \/ Rates(Laptops)

SpecTotals == InitTotals /\ [][NextTotals]_vars

(***************************************************************************)
(* SpecDayEnd: the laptop loads the day's ledger, edits its entries and    *)
(* closes the day, before or after midnight; localStorage has room and the *)
(* PUTs stay in flight.                                                    *)
(***************************************************************************)
DayEndInputs ==
  {Ledger1(op, main, 0) :
     op   \in {<<>>, <<StoredOutParty(1, 100, CASH)>>,
               <<StoredOutParty(1, 100, CASH), StoredOutParty(2, 50, CARD)>>},
     main \in {<<>>, <<StoredMain(3, CASH, 200, 30), StoredMain(4, CARD, 40, 0)>>}}

InitDayEnd == \E S \in DayEndInputs : InitHolding(S)

NextDayEnd ==
  \/ AddOP(Laptops, {FALSE})
  \/ EditOP(Laptops, {FALSE}, "amount", {50})
  \/ DelOP(Laptops, {FALSE})
  \/ AddM(Laptops, {FALSE})
  \/ EditM(Laptops, {FALSE}, "cashIn", {50})
  \/ DelM(Laptops, {FALSE})
  \/ DayEnd(Laptops, {FALSE})
  \/ Midnight
  \/ InitDone(Laptops)
  \/ ServeOk(Laptops) \/ ServeFail(Laptops)
  \/ Rates(Laptops)

SpecDayEnd == InitDayEnd /\ [][NextDayEnd]_vars

\* The snapshot of the spec's scenario: 100 cash and 50 card out-party,
\* 200 in / 30 out cash and 40 in card in the main section.
ScenarioSnapshot ==
  Ledger1(<<StoredOutParty(1, 100, CASH), StoredOutParty(2, 50, CARD)>>,
          <<StoredMain(3, CASH, 200, 30), StoredMain(4, CARD, 40, 0)>>, 0)

(***************************************************************************)
(* SpecInput: the laptop loads the day's ledger and its user types into    *)
(* the number inputs of the entries.                                       *)
(***************************************************************************)
\* What the user leaves in a number input: nothing, 75, 0, -5, 12 followed
\* by a letter, letters.
TypedTexts ==
  {<<>>, <<"7", "5">>, <<"0">>, <<"-", "5">>, <<"1", "2", "e">>, <<"a", "b">>}

TypeAmount(D, Q)  == \E d \in D, q \in Q, txt \in TypedTexts :
                       \E id \in OutPartyIds(d) : amountOnChange(d, id, txt, q)
TypeCashIn(D, Q)  == \E d \in D, q \in Q, txt \in TypedTexts :
                       \E id \in MainIds(d) : cashInOnChange(d, id, txt, q)
TypeCashOut(D, Q) == \E d \in D, q \in Q, txt \in TypedTexts :
                       \E id \in MainIds(d) : cashOutOnChange(d, id, txt, q)

InitInput == InitHolding(ScenarioSnapshot)

NextInput ==
  \/ TypeAmount(Laptops, {FALSE})
  \/ TypeCashIn(Laptops, {FALSE})
  \/ TypeCashOut(Laptops, {FALSE})
  \/ InitDone(Laptops)
  \/ ServeOk(Laptops) \/ ServeFail(Laptops)
  \/ Rates(Laptops)

SpecInput == InitInput /\ [][NextInput]_vars

(***************************************************************************)
(* SpecOverlap: the relay holds the one-entry snapshot of an earlier       *)
(* session; the laptop loads it and deletes the entry (its only write),    *)
(* while the mobile polls with fetches that may overlap.                   *)
(***************************************************************************)
InitOverlap == InitHolding(Assign(StoredSnapshot, "currentDate", ToLocaleDateString(1)))

NextOverlap ==
  \/ InitDone(Laptops) \/ ServeOk(Laptops)
  \/ DelOP(Laptops, {FALSE})
  \/ Settle(Laptops)
  \/ Tick(Mobiles) \/ TickDone(Mobiles) \/ InitDone(Mobiles)
  \/ ServeOk(Mobiles) \/ ServeFail(Mobiles)

SpecOverlap == InitOverlap /\ [][NextOverlap]_vars

(***************************************************************************)
(* SpecRates: the relay holds the snapshot of an earlier session and       *)
(* nothing is written to it; both devices load it, refresh their exchange  *)
(* rates and poll.                                                         *)
(***************************************************************************)
NextRates ==
  \/ Rates(Dev)
  \/ Tick(Dev) \/ TickDone(Dev) \/ InitDone(Dev)
  \/ ServeOk(Dev) \/ ServeFail(Dev)

SpecRates == InitOverlap /\ [][NextRates]_vars

(***************************************************************************)
(* SpecCarry: the laptop loads a ledger that carries an opening balance    *)
(* from the day before, with one out-party entry or none, and closes the   *)
(* day.                                                                    *)
(***************************************************************************)
CarryInputs ==
  {Ledger1(op, <<>>, ob) :
     op \in {<<>>, <<StoredOutParty(1, 100, CASH)>>}, ob \in OpeningBalances}

InitCarry == \E S \in CarryInputs : InitHolding(S)

NextCarry ==
  \/ AddOP(Laptops, {FALSE})
  \/ DelOP(Laptops, {FALSE})
  \/ DayEnd(Laptops, {FALSE})
  \/ Midnight
  \/ InitDone(Laptops)
  \/ ServeOk(Laptops) \/ ServeFail(Laptops)
  \/ Settle(Laptops)
  \/ Rates(Laptops)

SpecCarry == InitCarry /\ [][NextCarry]_vars

(***************************************************************************)
(* Steps and states the claims speak of.                                   *)
(***************************************************************************)
\* This step is device d's syncLoop resuming with the response g of its GET.
TickResolves(d, g) ==
  /\ g \in BagToSet(gets[d])
  /\ g.kind = "tick"
  /\ g.phase # "sent"
  /\ gets'[d] = gets[d] (-) SetToBag({g})
  /\ UNCHANGED <<cache, historyStore, remote, puts, savePromise, clock>>

\* The response carries a snapshot of the relay (both entry lists).
FetchedSnapshot(g) ==
  /\ g.phase = "ok"
  /\ WellFormed(g.body)
  /\ Has(JsonParse(g.body), "outPartyEntries")
  /\ Has(JsonParse(g.body), "mainEntries")

\* The local cache holds a valid snapshot.
CacheValid(d) ==
  /\ cache[d] # NoItem
  /\ WellFormed(cache[d][1])
  /\ Has(JsonParse(cache[d][1]), "outPartyEntries")
  /\ Has(JsonParse(cache[d][1]), "mainEntries")

\* The CashBookState of an object (src/types.ts): lastSyncTimestamp is the
\* relay's stamp, no part of the ledger.
Ledger(obj) == [k \in DOMAIN obj \ {"lastSyncTimestamp"} |-> obj[k]]

\* This step leaves the ledger device d shows as it was.
KeepsLedger(d) == Ledger(state'[d]) = Ledger(state[d])

\* A tick's response waits to be processed on d.
TickPending(d, g) == g \in BagToSet(gets[d]) /\ g.kind = "tick" /\ g.phase # "sent"

\* This step is device d resuming with the response g of a getState call,
\* the initial one or a tick's.
LoadResolves(d, g) ==
  /\ g \in BagToSet(gets[d])
  /\ g.phase # "sent"
  /\ gets'[d] = gets[d] (-) SetToBag({g})
  /\ UNCHANGED <<cache, historyStore, remote, puts, savePromise, clock>>

\* The keys of a CashBookState (src/types.ts lines 30-39).
SnapshotKeys == Keys \ {"lastSyncTimestamp"}

\* The local cache holds the text of a CashBookState.
CacheHoldsSnapshot(d) ==
  /\ cache[d] # NoItem
  /\ WellFormed(cache[d][1])
  /\ \A k \in SnapshotKeys : Has(JsonParse(cache[d][1]), k)

\* C1: while a PUT of device d is in flight, no tick of d replaces the current
\* snapshot by a fetched remote snapshot.
C1_NoAdoptDuringPush ==
  [][\A d \in Dev : \A g \in BagToSet(gets[d]) :
       (puts[d] # {} /\ TickResolves(d, g) /\ FetchedSnapshot(g))
         => KeepsLedger(d)]_vars

\* C2: once the PUT of the latest mutation has failed and the current snapshot
\* is the edited one, no tick issued after that mutation replaces it.
C2_FailedPushKeepsEdit ==
  [][\A d \in Laptops : \A g \in BagToSet(gets[d]) :
       (/\ savePromise[d] = "false"
        /\ puts[d] = {}
        /\ cache[d] = Item(Stringify(state[d]))
        /\ g.at = clock
        /\ TickResolves(d, g))
         => KeepsLedger(d)]_vars

\* C3: a tick whose GET was issued before the latest mutation leaves the
\* current snapshot alone when its response is processed.
C3_StaleFetchDiscarded ==
  [][\A d \in Laptops : \A g \in BagToSet(gets[d]) :
       (TickResolves(d, g) /\ FetchedSnapshot(g) /\ g.at < clock
        /\ cache[d] = Item(Stringify(state[d])))
         => KeepsLedger(d)]_vars

\* The snapshot of the writer's latest saveState (part_001 line 105 stores it).
LastPushed(d) == JsonParse(cache[d][1])

\* The latest saveState of the writer resolved to true and none of its PUTs is
\* in flight.
LastPushSucceeded(d) == savePromise[d] = "true" /\ puts[d] = {}

\* Every viewer shows the ledger of the writer's last-pushed snapshot.
Converged(w) ==
  /\ cache[w] # NoItem
  /\ \A m \in Mobiles : Ledger(state[m]) = Ledger(LastPushed(w))

\* C4: if from some time on the writer's latest push has succeeded and nothing
\* more is written, then from some time on every viewer shows the ledger of
\* the last-pushed snapshot.
C4_ObserversConverge ==
  \A w \in Laptops :
    <>[]LastPushSucceeded(w)
      => <>[]Converged(w)

\* C5: a tick whose fetch yields nothing usable leaves the current
\* snapshot as it was.
C5_UnusableFetchNoChange ==
  [][\A d \in Dev : \A g \in BagToSet(gets[d]) :
       (TickResolves(d, g) /\ ~FetchedSnapshot(g))
         => KeepsLedger(d)]_vars

MutationOn(d) ==
  \/ \E q \in BOOLEAN : addOP(d, q)
  \/ \E q \in BOOLEAN, id \in OutPartyIds(d), v \in {0, 50} :
       editOP(d, id, "amount", v, q)
  \/ \E q \in BOOLEAN, id \in OutPartyIds(d), m \in Methods :
       editOP(d, id, "method", m, q)
  \/ \E q \in BOOLEAN, id \in OutPartyIds(d) : delOP(d, id, q)
  \/ \E q \in BOOLEAN : addM(d, q)
  \/ \E q \in BOOLEAN, id \in MainIds(d), v \in {0, 50} :
       editM(d, id, "cashIn", v, q) \/ editM(d, id, "cashOut", v, q)
  \/ \E q \in BOOLEAN, id \in MainIds(d), m \in Methods :
       editM(d, id, "method", m, q)
  \/ \E q \in BOOLEAN, id \in MainIds(d) : delM(d, id, q)
  \/ \E c \in BOOLEAN, qh \in BOOLEAN, q \in BOOLEAN : doDayEnd(d, c, qh, q)

\* C7: on a device in non-writer role every mutation handler leaves the
\* current snapshot, the local cache, the archive list and the relay unchanged.
C7_ViewerMutationsNoOp ==
  [][\A d \in Mobiles :
       MutationOn(d) => UNCHANGED <<state, cache, historyStore, remote>>]_vars

\* C8: a step that changes the current snapshot of d other than by resolving a
\* getState happens on the writer, stores the new snapshot in the local cache
\* and sends it to the relay.
C8_LocalChangesThroughGateway ==
  [][\A d \in Dev :
       (state'[d] # state[d] /\ gets'[d] = gets[d])
         => /\ isLaptop(d)
            /\ cache'[d] = Item(Stringify(state'[d]))
            /\ PutBody(state'[d], clock) \in puts'[d]]_vars

\* C9: once no PUT is in flight, the relay holds the body with the greatest
\* lastSyncTimestamp it accepted, that of the latest mutation whose push
\* succeeded.
C9_LatestSuccessfulPushWins ==
  ((\A d \in Dev : puts[d] = {}) /\ accepted > 0) => TsOf(remote) = accepted

\* C10: the promise of saveState never rejects, and it resolves to true only
\* when the relay accepted the body.
C10_SaveNeverRaises ==
  \A d \in Dev :
    /\ savePromise[d] # "rejected"
    /\ savePromise[d] = "true" => accepted = clock - 1

\* C11: when the GET of a getState call failed and the local cache holds a
\* text that is not a CashBookState, getState resolves to null and the current
\* snapshot stays as it was.
C11_BadCacheIsAbsent ==
  [][\A d \in Dev : \A g \in BagToSet(gets[d]) :
       (/\ LoadResolves(d, g)
        /\ g.phase = "fail"
        /\ cache[d] # NoItem
        /\ ~CacheHoldsSnapshot(d))
         => /\ getStateResult(d, g) = Null
            /\ state'[d] = state[d]]_vars

\* C12: after n saveToHistory calls, the n-th with the record of day n,
\* getHistory returns the records of the last min(n, 100) days, newest first.
C12_ArchiveNewestFirstCapped ==
  \A d \in Dev :
    LET n    == NewestDay(d)
        kept == IF n < HistoryCap THEN n ELSE HistoryCap
    IN getHistory(d) = [i \in 1..kept |-> ArchiveRecordOf(n - i + 1)]

\* more than 100 records were appended and the archive holds 100
C12_Witness ==
  \E d \in Dev : Len(getHistory(d)) = HistoryCap /\ NewestDay(d) > HistoryCap

RECURSIVE SumAt(_, _, _)
\* The sum of list[i][field] over the positions i in idx.
SumAt(list, field, idx) ==
  IF idx = {} THEN 0
  ELSE LET i == CHOOSE j \in idx : TRUE
       IN list[i][field] + SumAt(list, field, idx \ {i})

\* The positions of the entries of list paid by method m.
PaidBy(list, m) == {i \in DOMAIN list : list[i].method = m}

\* C14: the totals of every snapshot are the out-party subtotals per method,
\* grandCard and grandPaypal (card / paypal cashIn of the main section plus the
\* out-party subtotal), finalCashIn (all cashIn plus the three subtotals) and
\* finalCashOut (all cashOut plus grandCard plus grandPaypal).
C14_TotalsAsSpecified ==
  \A d \in Dev :
    LET op   == state[d].outPartyEntries
        main == state[d].mainEntries
        t    == totals(state[d])
    IN /\ t.op.cash   = SumAt(op, "amount", PaidBy(op, CASH))
       /\ t.op.card   = SumAt(op, "amount", PaidBy(op, CARD))
       /\ t.op.paypal = SumAt(op, "amount", PaidBy(op, PAYPAL))
       /\ t.grandCard   = SumAt(main, "cashIn", PaidBy(main, CARD)) + t.op.card
       /\ t.grandPaypal = SumAt(main, "cashIn", PaidBy(main, PAYPAL)) + t.op.paypal
       /\ t.finalCashIn = SumAt(main, "cashIn", DOMAIN main)
                            + t.op.cash + t.op.card + t.op.paypal
       /\ t.finalCashOut = SumAt(main, "cashOut", DOMAIN main)
                             + t.grandCard + t.grandPaypal

\* the laptop shows the scenario snapshot and its totals are 390, 120, 270
C14_Witness ==
  \E d \in Dev :
    /\ Ledger(state[d]) = ScenarioSnapshot
    /\ totals(state[d]).finalCashIn = 390
    /\ totals(state[d]).finalCashOut = 120
    /\ totals(state[d]).finalBalance = 270

C16_TotalsOfListsOnly ==
  \A d \in Dev :
    totals(state[d]) =
      totals([outPartyEntries |-> state[d].outPartyEntries,
              mainEntries     |-> state[d].mainEntries])

\* a snapshot with entries, an opening balance and refreshed exchange rates
C16_Witness ==
  \E d \in Dev :
    /\ state[d].openingBalance # 0
    /\ state[d].exchangeRates # DefaultState.exchangeRates
    /\ state[d].outPartyEntries # <<>>
    /\ state[d].mainEntries # <<>>

\* This step is a day-end carried out on device d: its archive is written.
DayEndStep(d) == historyStore'[d] # historyStore[d]

\* The date one calendar day after date.
NextDay(date) == ToLocaleDateString(DayNumber(date) + 1)

\* C13: every out-party entry at position i (from 1) carries index i.
C13_IndexIsPosition ==
  \A d \in Dev :
    \A i \in DOMAIN state[d].outPartyEntries :
      state[d].outPartyEntries[i].index = i

\* the entry appended second stands first after the first was deleted
C13_Witness ==
  \E d \in Laptops :
    /\ state[d].outPartyEntries # <<>>
    /\ state[d].outPartyEntries[1].id = 2

\* C17: a day-end on the writer leaves a snapshot with empty entry lists, the
\* exchange rates of the snapshot before it, and as opening balance the
\* finalBalance of the snapshot before it.
C17_DayEndResets ==
  [][\A d \in Laptops :
       DayEndStep(d)
         => /\ state'[d].outPartyEntries = <<>>
            /\ state'[d].mainEntries = <<>>
            /\ state'[d].exchangeRates = state[d].exchangeRates
            /\ state'[d].openingBalance = totals(state[d]).finalBalance]_vars

\* the scenario ledger was closed after the exchange rates were refreshed
C17_Witness ==
  \E d \in Laptops :
    /\ getHistory(d) # <<>>
    /\ state[d].outPartyEntries = <<>>
    /\ state[d].mainEntries = <<>>
    /\ state[d].openingBalance = 270
    /\ state[d].exchangeRates # DefaultState.exchangeRates

\* C18: a day-end sets currentDate to the day after the currentDate of the
\* snapshot before it, whatever the day it runs on.
C18_DateAdvancesOneDay ==
  [][\A d \in Laptops :
       DayEndStep(d)
         => state'[d].currentDate = NextDay(state[d].currentDate)]_vars

C20_NoOperationRaises ==
  \A d \in Dev : ~thrown[d]

\* The snapshot the marker stateJsonRef.current of d is the text of.
LastKnown(d) == JsonParse(stateJsonRef[d])

\* C21: when a tick's getState resolves to a snapshot R with both entry lists,
\* then if R differs from the last-known snapshot the current snapshot and
\* the marker become R, and if R equals it neither changes.
C21_TickAdoptsIffDifferent ==
  [][\A d \in Dev : \A g \in BagToSet(gets[d]) :
       (TickResolves(d, g) /\ Usable(getStateResult(d, g)))
         => LET R == getStateResult(d, g)[1]
            IN IF R # LastKnown(d)
               THEN /\ state'[d] = R
                    /\ stateJsonRef'[d] = Stringify(R)
               ELSE /\ state'[d] = state[d]
                    /\ stateJsonRef'[d] = stateJsonRef[d]]_vars

\* a tick's response carries the relay's snapshot the device adopted before
C21_Witness ==
  \E d \in Dev : \E g \in BagToSet(gets[d]) :
    /\ TickPending(d, g)
    /\ FetchedSnapshot(g)
    /\ Has(state[d], "lastSyncTimestamp")
    /\ JsonParse(g.body) = LastKnown(d)

\* This step sends a PUT from device d.
PushIssued(d) == puts'[d] \ puts[d] # {}

CacheSnapshot(d) ==
  IF cache[d] # NoItem /\ WellFormed(cache[d][1])
  THEN Some(JsonParse(cache[d][1])) ELSE Null

\* C23: when the relay answers a getState call with a payload that lacks an
\* entry list, getState resolves to the local cache's snapshot (or null), and
\* the payload does not become the current snapshot.
C23_PartialPayloadIsAbsent ==
  [][\A d \in Dev : \A g \in BagToSet(gets[d]) :
       (LoadResolves(d, g) /\ g.phase = "ok" /\ ~FetchedSnapshot(g))
         => /\ getStateResult(d, g) = CacheSnapshot(d)
            /\ WellFormed(g.body) /\ state'[d] # state[d]
                 => state'[d] # JsonParse(g.body)]_vars

\* The number of syncLoop callbacks of d that have called getState and not
\* yet resumed from its await.
TicksInFlight(d) ==
  LET ticks == {g \in BagToSet(gets[d]) : g.kind = "tick"}
  IN BagCardinality([g \in ticks |-> gets[d][g]])

\* C24: on every device at most one tick's fetch is in flight at any time.
C24_OneTickInFlight ==
  \A d \in Dev : TicksInFlight(d) <= 1

\* The entry of list with the given id.
EntryOf(list, id) == list[CHOOSE i \in DOMAIN list : list[i].id = id]

\* C25: whatever text is typed into an amount, cashIn or cashOut input, the
\* value the edit stores in the snapshot is a number that is at least 0, and
\* it is 0 when parseFloat finds no number in the text.
C25_StoredAmountsNonNegative ==
  [][\A d \in Laptops : \A txt \in TypedTexts :
       /\ \A id \in OutPartyIds(d) :
            amountOnChange(d, id, txt, FALSE)
              => LET v == EntryOf(state'[d].outPartyEntries, id).amount
                 IN v \in Nat /\ (ParseFloat(txt) = NaN => v = 0)
       /\ \A id \in MainIds(d) :
            /\ cashInOnChange(d, id, txt, FALSE)
                 => LET v == EntryOf(state'[d].mainEntries, id).cashIn
                    IN v \in Nat /\ (ParseFloat(txt) = NaN => v = 0)
            /\ cashOutOnChange(d, id, txt, FALSE)
                 => LET v == EntryOf(state'[d].mainEntries, id).cashOut
                    IN v \in Nat /\ (ParseFloat(txt) = NaN => v = 0)]_vars

\* The response g was given after the latest push was accepted: it failed,
\* or it carries what the relay holds.
AnsweredAfterPush(g) == g.phase = "ok" => g.body = remote

\* C26: once the push of the writer's latest mutation has succeeded, a tick
\* answered after that leaves the writer's current snapshot as it was.
C26_TicksAfterPushNoChange ==
  [][\A d \in Laptops : \A g \in BagToSet(gets[d]) :
       (/\ LastPushSucceeded(d)
        /\ g.at = clock
        /\ AnsweredAfterPush(g)
        /\ TickResolves(d, g))
         => KeepsLedger(d)]_vars

\* Device d shows a snapshot it took from the relay.
ShowsRelaySnapshot(d) == Has(state[d], "lastSyncTimestamp")

\* C27: a viewer that shows the snapshot of one write never replaces it by
\* the snapshot of an earlier write.
C27_AdoptsInWriteOrder ==
  [][\A m \in Mobiles :
       (ShowsRelaySnapshot(m) /\ Has(state'[m], "lastSyncTimestamp"))
         => state'[m].lastSyncTimestamp >= state[m].lastSyncTimestamp]_vars

\* The exchange rates a successful refresh computes (part_002 lines 91-92).
RefreshedRates ==
  {[usd |-> CeilDiv(data.LKR, 100), eur |-> CeilDiv(data.LKR, data.EUR)] :
     data \in RateFeed}

\* C28: when the current snapshot holds the exchange rates of a successful
\* refresh and the relay has not been written, a tick leaves those rates in
\* the current snapshot.
C28_RefreshedRatesSurviveTick ==
  [][\A d \in Dev : \A g \in BagToSet(gets[d]) :
       (TickResolves(d, g) /\ state[d].exchangeRates \in RefreshedRates)
         => state'[d].exchangeRates = state[d].exchangeRates]_vars

\* C29: the Total Cash In and Total Cash Out the view renders are the
\* finalCashIn and finalCashOut of the totals of the current snapshot.
C29_ViewShowsFinalTotals ==
  \A d \in Dev :
    /\ HighlightTotals(state[d]).totalCashIn = totals(state[d]).finalCashIn
    /\ HighlightTotals(state[d]).totalCashOut = totals(state[d]).finalCashOut

\* C30: a day-end on a snapshot with no entries sets openingBalance to 0,
\* whatever the openingBalance before it.
C30_EmptyDayEndZeroOpening ==
  [][\A d \in Laptops :
       (/\ DayEndStep(d)
        /\ state[d].outPartyEntries = <<>>
        /\ state[d].mainEntries = <<>>)
         => state'[d].openingBalance = 0]_vars

\* a day without entries that opened with 270 was closed, and the new day
\* opens with 0
C30_Witness ==
  \E d \in Laptops :
    /\ getHistory(d) # <<>>
    /\ getHistory(d)[1].data.openingBalance = 270
    /\ getHistory(d)[1].data.outPartyEntries = <<>>
    /\ getHistory(d)[1].data.mainEntries = <<>>
    /\ state[d].openingBalance = 0

====
